---- MODULE Spec2Model ----
(***************************************************************************)
(* Model of streamlit_app.py, the "BBD Daily Summary Dashboard".           *)
(*                                                                         *)
(* The script has one handler, the body of the "Generate Complete          *)
(* Dashboard" button.  It is modelled statement block by statement block,  *)
(* with pc holding the position of the handler, so that "before the        *)
(* grouping" and "no table was produced" are states of the model.          *)
(*                                                                         *)
(* A data frame is a sequence of records (its rows) together with the set  *)
(* of its column names; reading a column that is not in the set is the     *)
(* KeyError pandas raises, which ends the handler.  A missing cell is NaN.  *)
(* The aggregates kept are total_orders, orders_delivered, ordered_qty     *)
(* (order report), total_routes, total_weight (LMD report) and total_sales *)
(* (SKU report); the other aggregates of the source have the same shape as *)
(* one of these and are read by no property below.                         *)
(***************************************************************************)
EXTENDS Integers, Sequences, FiniteSets, TLC

(* ---------------------------- bounds ----------------------------------- *)
MaxOrdRows == 2
MaxOptRows == 2

(* ---------------------------- cell values ------------------------------ *)
NULL == "<NA>"
NaT  == "NaT"
NaN  == <<>>
Val(v) == <<v>>
IsNaN(c) == c = NaN
FillNa0(c) == IF IsNaN(c) THEN 0 ELSE c[1]

RawNames  == {"a ", NULL}
RawDates  == {"2024-01-01 06:30", "n/a"}
RawStatus == {"Delivered", "cancelled"}
RawQty    == {"2"}
OrderIds  == {101, 102}

(* str.strip() on the strings of the model *)
Strip(s) == IF s = "a " THEN "a" ELSE s

(* str.upper() on the strings of the model *)
Upper(s) ==
  CASE s = "a" -> "A"
    [] s = "a " -> "A "
    [] s = "Unknown" -> "UNKNOWN"
    [] OTHER -> s

(* str.lower() on the strings of the model *)
Lower(s) ==
  CASE s = "Delivered" -> "delivered"
    [] OTHER -> s

(* .fillna('Unknown').astype(str).str.strip().str.upper() *)
CleanName(s) == Upper(Strip(IF s = NULL THEN "Unknown" ELSE s))

(* pd.to_datetime(..., errors='coerce').dt.normalize() *)
ToDatetimeNormalize(s) ==
  CASE s = "2024-01-01 06:30" -> "2024-01-01"
    [] s = "2024-01-01" -> "2024-01-01"
    [] OTHER -> NaT

(* pd.to_numeric(..., errors='coerce').fillna(0) *)
ToNumeric(s) ==
  CASE s = "2" -> 2
    [] OTHER -> 0

(* keys as groupby(sort=True) orders them *)
SortedDates == <<"2024-01-01", NaT>>
SortedNames == <<"A", "UNKNOWN">>

(* every (date, name) key in sorted order, NaT last *)
AllKeys ==
  [i \in 1..(Len(SortedDates) * Len(SortedNames)) |->
     <<SortedDates[((i - 1) \div Len(SortedNames)) + 1],
       SortedNames[((i - 1) % Len(SortedNames)) + 1]>>]

RECURSIVE SumSeq(_)
SumSeq(s) == IF s = <<>> THEN 0 ELSE Head(s) + SumSeq(Tail(s))

Column(df, c) == [i \in DOMAIN df |-> df[i][c]]

(* Series.nunique() *)
NUnique(s) == Cardinality({s[i] : i \in DOMAIN s})

(* Series.sum() of a boolean column *)
BoolSum(s) == Cardinality({i \in DOMAIN s : s[i]})

(* ---------------------------- input tables ----------------------------- *)
OrdRow ==
  [delivery_date : RawDates, sa_name : RawNames, order_id : OrderIds,
   order_status : RawStatus, OriginalQty : RawQty]

LmdRow ==
  [order_delivered_time : {"2024-01-01 06:30"}, sa_name : {"a "}, route_id : {7},
   weight : {3}]

SkuRow ==
  [delivery_date : {"2024-01-01"}, sa_name : {"a "}, total_sales : {5}]

(* the tables of 1 to n rows drawn from S *)
SeqUpTo(S, n) == UNION {[1..k -> S] : k \in 1..n}

OrdAllCols ==
  {"sa_name", "delivery_date", "OriginalQty", "finalquantity",
   "OriginalOrderValue", "FinalOrderValue", "order_status", "Type",
   "Milk / NM", "cancellation_reason", "member_id", "order_id"}

(* an order report has every column, or lacks one of these *)
DroppedCol == {"order_status", "delivery_date"}
OrdColSets == {OrdAllCols} \cup {OrdAllCols \ {c} : c \in DroppedCol}

CleanCols ==
  {"sa_name", "delivery_date", "OriginalQty", "finalquantity",
   "OriginalOrderValue", "FinalOrderValue"}
(* variant: the status flag is not computed before the grouping *)
FlagColsNoStatus == {"Type", "Milk / NM", "cancellation_reason"}
FlagCols == {"order_status", "Type", "Milk / NM", "cancellation_reason"}
AggCols  == {"member_id", "order_id"}

(* ---------------------------- data cleaning ---------------------------- *)
(* lines 40-46: standardise store names and dates, convert numerics *)
CleanOrd(df) ==
  [i \in DOMAIN df |->
     [df[i] EXCEPT !.sa_name = CleanName(@),
                   !.delivery_date = ToDatetimeNormalize(@),
                   !.OriginalQty = ToNumeric(@)]]

(* line 49: order_status.str.lower().isin(['complete', 'delivered']) *)
IsDelivered(status) == Lower(status) \in {"complete", "delivered"}

AddFlags(df) ==
  [i \in DOMAIN df |-> df[i] @@ [is_delivered |-> IsDelivered(df[i].order_status)]]

(* ---------------------------- core aggregation ------------------------- *)
(* the rows of one group, in table order *)
GroupRows(df, dcol, k) ==
  SelectSeq(df, LAMBDA r : r[dcol] = k[1] /\ r.sa_name = k[2])

(* groupby([dcol, 'sa_name']) keys: sorted, keys with a missing date dropped *)
GroupKeys(df, dcol) ==
  SelectSeq(AllKeys, LAMBDA k : k[1] # NaT /\ GroupRows(df, dcol, k) # <<>>)

(* lines 58-74 *)
OrdAggRow(df, k) ==
  LET g == GroupRows(df, "delivery_date", k) IN
  [delivery_date |-> k[1], sa_name |-> k[2],
   total_orders |-> NUnique(Column(g, "order_id")),
   orders_delivered |-> BoolSum(Column(g, "is_delivered")),
   ordered_qty |-> SumSeq(Column(g, "OriginalQty"))]

(* variant: cancelled rows filtered out before the grouping *)
OrdAggActiveOnly(df) ==
  LET act == SelectSeq(df, LAMBDA r : r.order_status # "cancelled")
      ks == GroupKeys(act, "delivery_date") IN
  [i \in DOMAIN ks |-> OrdAggRow(act, ks[i])]

OrdAgg(df) ==
  LET ks == GroupKeys(df, "delivery_date") IN
  [i \in DOMAIN ks |-> OrdAggRow(df, ks[i])]

OrdAggCols ==
  {"delivery_date", "sa_name", "total_orders", "orders_delivered", "ordered_qty"}

(* ---------------------------- LMD report ------------------------------- *)
(* pd.to_datetime(series).dt.time < 07:00 *)
Before700(s) == s = "2024-01-01 06:30"

(* lines 78-79 *)
CleanLmd(df) ==
  [i \in DOMAIN df |->
     [df[i] EXCEPT !.sa_name = CleanName(@)]
       @@ [dt |-> ToDatetimeNormalize(df[i].order_delivered_time)]]

(* lines 82-85: share of the group's rows delivered before the limit *)
CheckOtd(g) ==
  <<BoolSum([i \in DOMAIN g |-> Before700(g[i].order_delivered_time)]), Len(g)>>

(* lines 87-93 *)
LmdAggRow(df, k) ==
  LET g == GroupRows(df, "dt", k) IN
  [dt |-> k[1], sa_name |-> k[2],
   otd_700 |-> CheckOtd(g),
   total_routes |-> NUnique(Column(g, "route_id")),
   total_weight |-> SumSeq(Column(g, "weight"))]

LmdAgg(df) ==
  LET ks == GroupKeys(df, "dt") IN
  [i \in DOMAIN ks |-> LmdAggRow(df, ks[i])]

LmdCols == {"dt", "otd_700", "total_routes", "total_weight"}

(* line 94: pd.merge(summary, lmd_agg, left_on=[delivery_date, sa_name], *)
(* right_on=[dt, sa_name], how='left')                                   *)
RECURSIVE MergeLmd(_, _)
MergeLmd(left, right) ==
  IF left = <<>> THEN <<>>
  ELSE LET l == Head(left)
           m == SelectSeq(right, LAMBDA r : r.dt = l.delivery_date /\ r.sa_name = l.sa_name)
           joined ==
             IF m = <<>>
             THEN <<l @@ [dt |-> NaT, otd_700 |-> NaN, total_routes |-> NaN,
                          total_weight |-> NaN]>>
             ELSE [i \in DOMAIN m |->
                     l @@ [dt |-> m[i].dt, otd_700 |-> Val(m[i].otd_700),
                           total_routes |-> Val(m[i].total_routes),
                           total_weight |-> Val(m[i].total_weight)]]
       IN joined \o MergeLmd(Tail(left), right)

(* ---------------------------- SKU report ------------------------------- *)
(* lines 98-99 *)
CleanSku(df) ==
  [i \in DOMAIN df |->
     [df[i] EXCEPT !.sa_name = CleanName(@),
                   !.delivery_date = ToDatetimeNormalize(@)]]

(* line 100 *)
SalesAggRow(df, k) ==
  [delivery_date |-> k[1], sa_name |-> k[2],
   total_sales |-> SumSeq(Column(GroupRows(df, "delivery_date", k), "total_sales"))]

SalesAgg(df) ==
  LET ks == GroupKeys(df, "delivery_date") IN
  [i \in DOMAIN ks |-> SalesAggRow(df, ks[i])]

(* variant: how='inner' *)
RECURSIVE MergeSalesInner(_, _)
MergeSalesInner(left, right) ==
  IF left = <<>> THEN <<>>
  ELSE LET l == Head(left)
           m == SelectSeq(right, LAMBDA r : r.delivery_date = l.delivery_date
                                            /\ r.sa_name = l.sa_name)
       IN [i \in DOMAIN m |-> l @@ [total_sales |-> Val(m[i].total_sales)]]
            \o MergeSalesInner(Tail(left), right)

(* line 101: pd.merge(summary, sales_agg, on=[delivery_date, sa_name], how='left') *)
RECURSIVE MergeSales(_, _)
MergeSales(left, right) ==
  IF left = <<>> THEN <<>>
  ELSE LET l == Head(left)
           m == SelectSeq(right, LAMBDA r : r.delivery_date = l.delivery_date
                                            /\ r.sa_name = l.sa_name)
           joined ==
             IF m = <<>>
             THEN <<l @@ [total_sales |-> NaN]>>
             ELSE [i \in DOMAIN m |-> l @@ [total_sales |-> Val(m[i].total_sales)]]
       IN joined \o MergeSales(Tail(left), right)

(* ---------------------------- calculated ratios ------------------------ *)
Inf == <<"inf">>

(* Series / Series on nullable cells; a quotient is kept as <<num, den>> *)
Div(n, d) ==
  IF IsNaN(n) \/ IsNaN(d) THEN NaN
  ELSE IF d[1] = 0 THEN (IF n[1] = 0 THEN NaN ELSE Inf)
  ELSE Val(<<n[1], d[1]>>)

(* .replace([np.inf, -np.inf], 0) *)
ReplaceInf0(c) == IF c = Inf THEN Val(0) ELSE c

(* lines 104-105 *)
RatioRow(r) ==
  r @@ [orders_undelivered |-> r.total_orders - r.orders_delivered,
        abv |-> Val(FillNa0(ReplaceInf0(Div(r.total_sales, Val(r.orders_delivered)))))]

(* lines 111-113 *)
WeightRow(r) ==
  r @@ [weight_per_route |-> Div(r.total_weight, r.total_routes),
        weight_per_order |-> Div(r.total_weight, Val(r.orders_delivered))]

(* ---------------------------- final formatting ------------------------- *)
(* lines 116-128: the modelled keys of target_cols and their labels *)
TargetCols ==
  [delivery_date |-> "Date", sa_name |-> "Store Name",
   total_orders |-> "Total Orders", orders_delivered |-> "Orders Delivered",
   orders_undelivered |-> "Orders Undelivered",
   ordered_qty |-> "Total Ordered Quantity",
   otd_700 |-> "OTD 7:00 AM", abv |-> "ABV", total_sales |-> "Sale",
   total_routes |-> "Routes", weight_per_route |-> "Wt/Route"]

(* columns whose cells are nullable *)
NullableCols ==
  {"otd_700", "abv", "total_sales", "total_routes", "total_weight",
   "weight_per_route", "weight_per_order"}

(* line 131 *)
FinalSelection(cols) == {c \in DOMAIN TargetCols : c \in cols}

(* line 132: summary[final_selection].rename(columns=target_cols).fillna(0) *)
FinalDf(summ, cols) ==
  LET sel == FinalSelection(cols)
      src(label) == CHOOSE c \in sel : TargetCols[c] = label
  IN [i \in DOMAIN summ |->
        [label \in {TargetCols[c] : c \in sel} |->
           IF src(label) \in NullableCols
           THEN FillNa0(summ[i][src(label)])
           ELSE summ[i][src(label)]]]

(* ---------------------------- state ------------------------------------ *)
VARIABLES
  pc,        \* position of the button handler
  df_ord,    \* result of load_file("order_Report_SA_ID")
  ord_cols,  \* columns of df_ord
  df_sku,    \* result of load_file("order_sku_sales_bb2")
  df_lmd,    \* result of load_file("iot-rate-card-iot_orderwise")
  summary,   \* the summary data frame
  sum_cols,  \* columns of summary
  final_df,  \* the table handed to st.dataframe
  shown      \* what the page shows

vars == <<pc, df_ord, ord_cols, df_sku, df_lmd, summary, sum_cols, final_df, shown>>

(* load_file returns None or a data frame *)
NotFound == [found |-> FALSE, rows |-> <<>>]
Found(t) == [found |-> TRUE, rows |-> t]

OrdFiles == {Found(t) : t \in SeqUpTo(OrdRow, MaxOrdRows)}
SkuFiles == {NotFound} \cup {Found(t) : t \in SeqUpTo(SkuRow, MaxOptRows)}
LmdFiles == {NotFound} \cup {Found(t) : t \in SeqUpTo(LmdRow, MaxOptRows)}

Init ==
  /\ pc = "idle"
  /\ df_ord = NotFound
  /\ ord_cols = {}
  /\ df_sku = NotFound
  /\ df_lmd = NotFound
  /\ summary = <<>>
  /\ sum_cols = {}
  /\ final_df = <<>>
  /\ shown = "nothing"

(* lines 28-33: the button is pressed and the three files are looked up *)
Click ==
  /\ pc = "idle"
  /\ \/ df_ord' = NotFound /\ ord_cols' = {}
     \/ \E f \in OrdFiles, cs \in OrdColSets : df_ord' = f /\ ord_cols' = cs
  /\ df_sku' \in SkuFiles
  /\ df_lmd' \in LmdFiles
  /\ pc' = "loaded"
  /\ UNCHANGED <<summary, sum_cols, final_df, shown>>

(* an uncaught KeyError: the handler stops and the page shows the exception *)
Raise ==
  /\ pc' = "end"
  /\ shown' = "exception"
  /\ UNCHANGED <<df_ord, ord_cols, df_sku, df_lmd, summary, sum_cols, final_df>>

(* lines 35-36 *)
CriticalError ==
  /\ pc = "loaded"
  /\ ~df_ord.found
  /\ pc' = "end"
  /\ shown' = "critical"
  /\ UNCHANGED <<df_ord, ord_cols, df_sku, df_lmd, summary, sum_cols, final_df>>

(* lines 40-46 *)
Clean ==
  /\ pc = "loaded"
  /\ df_ord.found
  /\ CleanCols \subseteq ord_cols
  /\ df_ord' = Found(CleanOrd(df_ord.rows))
  /\ pc' = "cleaned"
  /\ UNCHANGED <<ord_cols, df_sku, df_lmd, summary, sum_cols, final_df, shown>>

CleanKeyError ==
  /\ pc = "loaded"
  /\ df_ord.found
  /\ ~(CleanCols \subseteq ord_cols)
  /\ Raise

(* lines 49-55 *)
Flags ==
  /\ pc = "cleaned"
  /\ FlagCols \subseteq ord_cols
  /\ df_ord' = Found(AddFlags(df_ord.rows))
  /\ ord_cols' = ord_cols \cup {"is_delivered"}
  /\ pc' = "flagged"
  /\ UNCHANGED <<df_sku, df_lmd, summary, sum_cols, final_df, shown>>

FlagsKeyError ==
  /\ pc = "cleaned"
  /\ ~(FlagCols \subseteq ord_cols)
  /\ Raise

(* lines 58-74 *)
Aggregate ==
  /\ pc = "flagged"
  /\ AggCols \subseteq ord_cols
  /\ summary' = OrdAgg(df_ord.rows)
  /\ sum_cols' = OrdAggCols
  /\ pc' = "aggregated"
  /\ UNCHANGED <<df_ord, ord_cols, df_sku, df_lmd, final_df, shown>>

(* lines 77-94 *)
LmdMerge ==
  /\ pc = "aggregated"
  /\ df_lmd.found
  /\ df_lmd' = Found(CleanLmd(df_lmd.rows))
  /\ summary' = MergeLmd(summary, LmdAgg(df_lmd'.rows))
  /\ sum_cols' = sum_cols \cup LmdCols
  /\ pc' = "lmd_done"
  /\ UNCHANGED <<df_ord, ord_cols, df_sku, final_df, shown>>

LmdSkip ==
  /\ pc = "aggregated"
  /\ ~df_lmd.found
  /\ pc' = "lmd_done"
  /\ UNCHANGED <<df_ord, ord_cols, df_sku, df_lmd, summary, sum_cols, final_df, shown>>

(* lines 97-101 *)
SkuMerge ==
  /\ pc = "lmd_done"
  /\ df_sku.found
  /\ df_sku' = Found(CleanSku(df_sku.rows))
  /\ summary' = MergeSales(summary, SalesAgg(df_sku'.rows))
  /\ sum_cols' = sum_cols \cup {"total_sales"}
  /\ pc' = "sku_done"
  /\ UNCHANGED <<df_ord, ord_cols, df_lmd, final_df, shown>>

SkuSkip ==
  /\ pc = "lmd_done"
  /\ ~df_sku.found
  /\ pc' = "sku_done"
  /\ UNCHANGED <<df_ord, ord_cols, df_sku, df_lmd, summary, sum_cols, final_df, shown>>

(* lines 104-113 *)
Ratios ==
  /\ pc = "sku_done"
  /\ "total_sales" \in sum_cols
  /\ LET withRatios == [i \in DOMAIN summary |-> RatioRow(summary[i])] IN
     IF "total_weight" \in sum_cols
     THEN /\ summary' = [i \in DOMAIN summary |-> WeightRow(withRatios[i])]
          /\ sum_cols' = sum_cols \cup {"orders_undelivered", "abv",
                                        "weight_per_route", "weight_per_order"}
     ELSE /\ summary' = withRatios
          /\ sum_cols' = sum_cols \cup {"orders_undelivered", "abv"}
  /\ pc' = "ratios"
  /\ UNCHANGED <<df_ord, ord_cols, df_sku, df_lmd, final_df, shown>>

(* line 105: summary['total_sales'] when no SKU report was merged *)
RatiosKeyError ==
  /\ pc = "sku_done"
  /\ "total_sales" \notin sum_cols
  /\ Raise

(* lines 116-139 *)
Format ==
  /\ pc = "ratios"
  /\ final_df' = FinalDf(summary, sum_cols)
  /\ shown' = "success"
  /\ pc' = "end"
  /\ UNCHANGED <<df_ord, ord_cols, df_sku, df_lmd, summary, sum_cols>>

(* the script is run again from the top on the next interaction *)
Rerun ==
  /\ pc = "end"
  /\ pc' = "idle"
  /\ df_ord' = NotFound
  /\ ord_cols' = {}
  /\ df_sku' = NotFound
  /\ df_lmd' = NotFound
  /\ summary' = <<>>
  /\ sum_cols' = {}
  /\ final_df' = <<>>
  /\ shown' = "nothing"

Next ==
  \/ Click
  \/ CriticalError
  \/ Clean
  \/ CleanKeyError
  \/ Flags
  \/ FlagsKeyError
  \/ Aggregate
  \/ LmdMerge
  \/ LmdSkip
  \/ SkuMerge
  \/ SkuSkip
  \/ Ratios
  \/ RatiosKeyError
  \/ Format
  \/ Rerun

Spec == Init /\ [][Next]_vars

(* ---------------------------- properties ------------------------------- *)
(* indices of the order rows of the group of key (d, n) *)
GroupIdx(d, n) ==
  {i \in DOMAIN df_ord.rows :
     df_ord.rows[i].delivery_date = d /\ df_ord.rows[i].sa_name = n}

ActiveIdx(d, n) ==
  {i \in GroupIdx(d, n) : df_ord.rows[i].order_status # "cancelled"}

RECURSIVE QtyOver(_)
QtyOver(I) ==
  IF I = {} THEN 0
  ELSE LET i == CHOOSE x \in I : TRUE
       IN df_ord.rows[i].OriginalQty + QtyOver(I \ {i})

(* C1 as stated: cancelled rows are excluded before grouping, so that the   *)
(* summary has a group only where an active row exists and total_orders and *)
(* ordered_qty of a group are those of its active rows.                     *)
C1_CancelledExcluded ==
  pc = "aggregated" =>
    /\ \A j \in DOMAIN summary :
         LET act == ActiveIdx(summary[j].delivery_date, summary[j].sa_name) IN
         /\ act # {}
         /\ summary[j].total_orders = Cardinality({df_ord.rows[i].order_id : i \in act})
         /\ summary[j].ordered_qty = QtyOver(act)

(* C1 amended: cancelled rows are not excluded.  Every order row with a     *)
(* valid delivery date, cancelled or not, belongs to the summary row of its *)
(* (delivery_date, sa_name) group and is counted in that row's total_orders *)
(* and ordered_qty; a cancelled row is only left out of orders_delivered.   *)
C1_CancelledCounted ==
  pc = "aggregated" =>
    /\ \A i \in DOMAIN df_ord.rows :
         df_ord.rows[i].delivery_date # NaT =>
           \E j \in DOMAIN summary :
             /\ summary[j].delivery_date = df_ord.rows[i].delivery_date
             /\ summary[j].sa_name = df_ord.rows[i].sa_name
    /\ \A j \in DOMAIN summary :
         LET all == GroupIdx(summary[j].delivery_date, summary[j].sa_name) IN
         /\ summary[j].total_orders = Cardinality({df_ord.rows[i].order_id : i \in all})
         /\ summary[j].ordered_qty = QtyOver(all)
         /\ summary[j].orders_delivered =
              Cardinality({i \in all : df_ord.rows[i].order_status = "Delivered"})

(* a group with a cancelled row has been aggregated *)
C1_Witness ==
  /\ pc = "aggregated"
  /\ \E j \in DOMAIN summary :
       LET all == GroupIdx(summary[j].delivery_date, summary[j].sa_name) IN
       /\ Cardinality(all) = 2
       /\ \E i \in all : df_ord.rows[i].order_status = "cancelled"
       /\ \E i \in all : df_ord.rows[i].order_status = "Delivered"

(* C2: an order report without the order_status column ends the run with an *)
(* error before the grouping: no group is aggregated, no table is produced. *)
C2_MissingStatusAborts ==
  (df_ord.found /\ "order_status" \notin ord_cols) =>
    /\ pc \in {"loaded", "cleaned", "end"}
    /\ sum_cols = {}
    /\ summary = <<>>
    /\ final_df = <<>>
    /\ shown \in {"nothing", "exception"}
    /\ pc = "end" => shown = "exception"

(* a non-empty order report without order_status has been run to its end *)
C2_Witness ==
  /\ pc = "end"
  /\ df_ord.found
  /\ "order_status" \notin ord_cols
  /\ Len(df_ord.rows) = MaxOrdRows
  /\ shown = "exception"

(* C7 as stated: with the order report loaded (all its columns present) the *)
(* run ends with the table shown, whether or not the SKU and LMD reports    *)
(* were found, and the columns of an absent report are left out; without    *)
(* the order report a critical error is shown and no table is produced.     *)
C7_OnlyOrderReportRequired ==
  pc = "end" =>
    /\ (df_ord.found /\ OrdAllCols \subseteq ord_cols) =>
         /\ shown = "success"
         /\ ~df_sku.found => "total_sales" \notin sum_cols
         /\ ~df_lmd.found => "total_routes" \notin sum_cols
    /\ ~df_ord.found => (shown = "critical" /\ final_df = <<>>)

(* C8 as stated: in every row of the table Orders Undelivered is not        *)
(* negative and Orders Delivered is at most Total Orders.                   *)
C8_UndeliveredNonNegative ==
  shown = "success" =>
    \A i \in DOMAIN final_df :
      /\ final_df[i]["Orders Undelivered"] >= 0
      /\ final_df[i]["Orders Delivered"] <= final_df[i]["Total Orders"]

(* the (delivery_date, sa_name) pairs of the cleaned order report *)
OrdPairs ==
  {<<df_ord.rows[i].delivery_date, df_ord.rows[i].sa_name>> : i \in DOMAIN df_ord.rows}

RowsOf(p) ==
  {i \in DOMAIN final_df :
     final_df[i]["Date"] = p[1] /\ final_df[i]["Store Name"] = p[2]}

(* C9 as stated: the final table has exactly one row per distinct           *)
(* (delivery_date, sa_name) pair of the order report.                       *)
C9_OneRowPerPair ==
  shown = "success" =>
    /\ Len(final_df) = Cardinality(OrdPairs)
    /\ \A p \in OrdPairs : Cardinality(RowsOf(p)) = 1

(* C9 amended: when the table is produced it has exactly one row per        *)
(* distinct (delivery_date, sa_name) pair of the order report whose         *)
(* delivery_date is a valid date (rows with a missing or unparseable date   *)
(* are dropped by the grouping); the merges add, duplicate and remove       *)
(* nothing, and a pair absent from a loaded optional report has 0 in that   *)
(* report's columns.                                                        *)
C9_OneRowPerDatedPair ==
  shown = "success" =>
    LET dated == {p \in OrdPairs : p[1] # NaT}
        inSku(p) == \E i \in DOMAIN df_sku.rows :
                      df_sku.rows[i].delivery_date = p[1] /\ df_sku.rows[i].sa_name = p[2]
        inLmd(p) == \E i \in DOMAIN df_lmd.rows :
                      df_lmd.rows[i].dt = p[1] /\ df_lmd.rows[i].sa_name = p[2]
    IN /\ Len(final_df) = Cardinality(dated)
       /\ \A p \in dated :
            /\ Cardinality(RowsOf(p)) = 1
            /\ \A i \in RowsOf(p) :
                 /\ ~inSku(p) => (final_df[i]["Sale"] = 0 /\ final_df[i]["ABV"] = 0)
                 /\ (df_lmd.found /\ ~inLmd(p)) =>
                      /\ final_df[i]["Routes"] = 0
                      /\ final_df[i]["OTD 7:00 AM"] = 0
                      /\ final_df[i]["Wt/Route"] = 0

(* a table of two groups, one of them absent from both optional reports,    *)
(* each of which has two rows for the other group                           *)
C9_Witness ==
  /\ shown = "success"
  /\ Len(final_df) = 2
  /\ df_lmd.found /\ Len(df_lmd.rows) = 2
  /\ Len(df_sku.rows) = 2
  /\ \E i \in DOMAIN final_df : final_df[i]["Sale"] = 0 /\ final_df[i]["Routes"] = 0
  /\ \E i \in DOMAIN final_df : final_df[i]["Sale"] = 10 /\ final_df[i]["Routes"] = 1

====
